---- MODULE Spec2Model ----
(***************************************************************************)
(* Model of the secret-scanning backend:                                   *)
(*   - ScanService.scanRepository      (cache-first request lifecycle)     *)
(*   - TruffleHogService.scanRepository (the concurrency gate)             *)
(*   - TruffleHogService.executeTruffleHog / executeWithTimeout            *)
(*     (child process, deadline timer, error classification)              *)
(*   - RateLimiter.middleware           (sliding window in the shared     *)
(*     store)                                                              *)
(*   - the POST /scan middleware chain  (limiters in front of the scan)   *)
(*   - CacheService                     (keys, JSON round trip,           *)
(*     invalidation)                                                       *)
(*   - TruffleHogService.parseTruffleHogOutput and buildTruffleHogCommand *)
(*   - the error classifier of executeTruffleHog, the stdout stream of    *)
(*     executeWithTimeout, and the cache commands on the one connection   *)
(*     to the store, with CacheService.invalidateRepository               *)
(* Node runs handlers to completion on one thread: an action is one        *)
(* handler (an event callback or the continuation after an await)         *)
(* together with the promise continuations it triggers.                   *)
(***************************************************************************)
EXTENDS Integers, FiniteSets, Sequences, TLC

\* ---------------------------------------------------------------- bounds
maxConcurrentScans == 1
NumCalls == 2
maxRequests == 2
windowMs == 2
MaxTime == 3
MaxLines == 3
MaxUrlLen == 3
MaxChunks == 3

\* one request more than the gate has permits
NumReq == maxConcurrentScans + 1
Req == 1..NumReq
Providers == {"github", "gitlab"}
Urls == {"u1"}
Targets == Urls \X Providers

\* ------------------------------------------------------- scan orchestrator
VARIABLES
  currentScans,  \* TruffleHogService.currentScans
  cache,         \* targets that have an entry in the cache store
  pc,            \* per request: idle, cacheCheck, probe, running, done
  target,        \* per request: the (repoUrl, provider) it asked for
  outcome,       \* per request: what the caller of ScanService got
  proc,          \* per request: the child process of executeWithTimeout
  exitInfo,      \* per request: how the child process ended
  timer,         \* per request: the deadline timer of executeWithTimeout
  signalSent,    \* per request: signal passed to child.kill
  cacheWrite,    \* per request: the fire-and-forget setScanResult
  dbWrite        \* per request: the fire-and-forget createScanRecord

\* ------------------------------------------------------------ rate limiter
VARIABLES
  clock,         \* Date.now(), in window units
  zset,          \* the sorted set rate_limit:{key}: score -> number of members
  expireAt,      \* expiry instant of the key, -1 when there is none
  rlpc,          \* per call: idle, multi, zadd, next, denied
  rlnow,         \* per call: the value of `now` it captured (0 once it is over)
  rlfailed,      \* per call: a store call of this admit call has failed
  admitted       \* history: timestamp -> calls admitted through the count check

scanVars == <<currentScans, cache, pc, target, outcome, proc, exitInfo,
              timer, signalSent, cacheWrite, dbWrite>>
limiterVars == <<clock, zset, expireAt, rlpc, rlnow, rlfailed, admitted>>

\* ------------------------------------------------------------ cache store
VARIABLES
  store,         \* the cache keys of the shared store: key -> text, or Absent
  lastSet,       \* history: target -> the result of its last setScanResult
  call,          \* the CacheService call that has run last
  returned,      \* what that call returned
  found          \* keys that invalidateRepository got from redis.keys

cacheVars == <<store, lastSet, call, returned, found>>

\* ------------------------------------------------------------------ traces
VARIABLES
  cacheRead      \* per request: whether the store answered its cache read

traceVars == <<cacheRead>>

\* ----------------------------------------------------------- result parser
VARIABLES
  output,        \* the stdout of the scanner, line by line
  parsed,        \* parseTruffleHogOutput has run
  results        \* what it returned

parserVars == <<output, parsed, results>>

\* --------------------------------------------------------- scanner command
VARIABLES
  url,           \* the repoUrl handed to executeTruffleHog, character by character
  childFile,     \* the program that child_process started, "none" before
  childArgs      \* its argument vector

commandVars == <<url, childFile, childArgs>>

\* ------------------------------------------------------ error classifier
VARIABLES
  message,       \* the message of the error that executeWithTimeout rejected with
  reported       \* the ScanError that executeTruffleHog threw for it, "none" before


\* ------------------------------------------------- output of the scanner
VARIABLES
  chunks,        \* what the child process has written to its stdout pipe
  stdout,        \* executeWithTimeout's `stdout`: the chunks delivered so far
  childCode,     \* "running", or the exit code of the child: "zero", "nonzero"
  promise,       \* the promise of executeWithTimeout: pending, resolved, rejected
  resolvedWith   \* the stdout it was resolved with

streamVars == <<chunks, stdout, childCode, promise, resolvedWith>>

\* ------------------------------------------------------ rate-limit quota
VARIABLES
  quota          \* per request and limiter: "none", "recorded" once its zadd
                 \* has run in the store, "error" once a store call failed


\* ------------------------------------------- the connection to the store
VARIABLES
  sent,          \* the commands sent on the one ioredis connection, unanswered
  invKeys,       \* the keys that invalidateRepository got from redis.keys
  stale,         \* history: the targets whose entry was written by a request
                 \* that had started when an invalidation began
  overtaken,     \* history: the requests that had started when an
                 \* invalidation began
  freshBefore    \* history: per request, the requests that had returned a fresh
                 \* result for its target when it started

orderVars == <<sent, invKeys, stale, overtaken, freshBefore>>
extraVars == <<message, reported, streamVars, quota, orderVars>>
dataVars == <<cacheVars, traceVars, parserVars, commandVars, extraVars>>
vars == <<scanVars, limiterVars, dataVars>>

\* ===================================================== error classification
\* An error message is modelled by the set of the tested substrings that it
\* contains; String.includes is then set membership.
MsgCommandTimeout_NoMarker == {}
MsgCommandTimeout == {"timeout"}
MsgKilled == {"timeout"}
MsgSpawnError == {}

\* stderr texts of the scanner, each by the tested substrings it contains
StderrTexts == { {},
                 {"not found", "repository not found"},
                 {"permission denied"},
                 {"timeout"} }

MsgExited(stderr) == stderr

\* executeTruffleHog's catch block followed by scanRepository's catch block:
\* the message of the ScanError the caller of TruffleHogService gets.
Classify(msg) ==
  IF "timeout" \in msg THEN "ScanTimedOut"
  ELSE IF "not found" \in msg \/ "command not found" \in msg
       THEN "NotInstalled"
  ELSE IF "permission denied" \in msg \/ "access denied" \in msg
       THEN "AccessDenied"
  ELSE IF "repository not found" \in msg \/ "404" \in msg
       THEN "RepoNotFound"
  ELSE "FailedToScan"

\* scanRepository's catch block wraps an error that is not a ScanError into
\* `Failed to scan repository: ${error.message}`: only that ScanError still
\* holds the text of the original error (the stderr of the scanner, or the
\* placeholder 'Unknown error').
CarriesStderr(o) == o = "FailedToScan"

\* Every error of the scan path is a ScanError: AppError(message, 500,
\* 'SCAN_ERROR'), and errorHandler copies statusCode and code to the response.
Succeeded(o) == o \in {"fresh", "cached"}
ErrorCode(o) == IF Succeeded(o) THEN "none" ELSE "SCAN_ERROR"
StatusCode(o) == IF Succeeded(o) THEN 200 ELSE 500

\* ============================================================ the gate
GateFull_Off(n) == n > maxConcurrentScans
GateFull(n) == n >= maxConcurrentScans

Release_Leak(n) == n
Release(n) == n - 1

\* ============================================================ Init
ScanInit ==
  /\ currentScans = 0
  /\ cache = {}
  /\ pc = [r \in Req |-> "idle"]
  /\ target = [r \in Req |-> CHOOSE t \in Targets : TRUE]
  /\ outcome = [r \in Req |-> "none"]
  /\ proc = [r \in Req |-> "none"]
  /\ exitInfo = [r \in Req |-> "none"]
  /\ timer = [r \in Req |-> "none"]
  /\ signalSent = [r \in Req |-> "none"]
  /\ cacheWrite = [r \in Req |-> "none"]
  /\ dbWrite = [r \in Req |-> "none"]

\* ===================================================== ScanService actions
\* A request enters ScanService.scanRepository and awaits the cache read.
BeginScan(r) ==
  /\ pc[r] = "idle"
  /\ \E t \in Targets : target' = [target EXCEPT ![r] = t]
  /\ pc' = [pc EXCEPT ![r] = "cacheCheck"]
  /\ UNCHANGED <<currentScans, cache, outcome, proc, exitInfo, timer,
                 signalSent, cacheWrite, dbWrite>>
  /\ UNCHANGED limiterVars

StartScan(r) == BeginScan(r) /\ UNCHANGED dataVars

\* The catch block of getScanResult returns null for a store error and for
\* text that JSON.parse rejects: the caller sees a miss.
OnReadError_Throws == "throw"
OnReadError == "miss"

\* cacheService.getScanResult returns to ScanService: a hit returns the
\* cached result at once, a miss goes on to the probe; an error thrown here
\* would end in the catch block of ScanService.scanRepository.
CacheRead(r, storeOk) ==
  /\ pc[r] = "cacheCheck"
  /\ LET got == IF ~storeOk THEN OnReadError
                ELSE IF target[r] \in cache THEN "hit" ELSE "miss"
     IN IF got = "hit"
        THEN /\ pc' = [pc EXCEPT ![r] = "done"]
             /\ outcome' = [outcome EXCEPT ![r] = "cached"]
        ELSE IF got = "miss"
        THEN /\ pc' = [pc EXCEPT ![r] = "probe"]
             /\ UNCHANGED outcome
        ELSE /\ pc' = [pc EXCEPT ![r] = "done"]
             /\ outcome' = [outcome EXCEPT ![r] = "ScanFailed"]
  /\ UNCHANGED <<currentScans, cache, target, proc, exitInfo, timer,
                 signalSent, cacheWrite, dbWrite>>
  /\ UNCHANGED limiterVars

\* cacheService.getScanResult returns: the entry, or null on a miss or on a
\* store error.  A hit returns the cached result at once.
CacheChecked_RewritesOnHit(r) ==
  /\ pc[r] = "cacheCheck"
  /\ \E storeOk \in BOOLEAN :
       IF storeOk /\ target[r] \in cache
       THEN /\ pc' = [pc EXCEPT ![r] = "done"]
            /\ outcome' = [outcome EXCEPT ![r] = "cached"]
            /\ cacheWrite' = [cacheWrite EXCEPT ![r] = "pending"]
       ELSE /\ pc' = [pc EXCEPT ![r] = "probe"]
            /\ UNCHANGED <<outcome, cacheWrite>>
  /\ UNCHANGED <<currentScans, cache, target, proc, exitInfo, timer,
                 signalSent, dbWrite>>
  /\ UNCHANGED <<limiterVars, dataVars>>
CacheChecked(r) == \E storeOk \in BOOLEAN : CacheRead(r, storeOk) /\ UNCHANGED dataVars

\* the same step, keeping whether the store answered the read
CacheCheckedTraced(r) ==
  \E storeOk \in BOOLEAN :
    /\ CacheRead(r, storeOk)
    /\ cacheRead' = [cacheRead EXCEPT ![r] = IF storeOk THEN "ok" ELSE "error"]
    /\ UNCHANGED <<cacheVars, parserVars, commandVars, extraVars>>

\* checkTruffleHogAvailability returns.  When the scanner is available the
\* continuation runs on, without suspending, through
\* TruffleHogService.scanRepository's gate, executeTruffleHog and the
\* exec() call of executeWithTimeout, which also arms the deadline timer.
ProbeReturned_NoDeadline(r) ==
  /\ pc[r] = "probe"
  /\ \E available \in BOOLEAN, spawned \in BOOLEAN :
       IF ~available
       THEN /\ pc' = [pc EXCEPT ![r] = "done"]
            /\ outcome' = [outcome EXCEPT ![r] = "ScannerUnavailable"]
            /\ UNCHANGED <<currentScans, proc>>
       ELSE IF GateFull(currentScans)
       THEN /\ pc' = [pc EXCEPT ![r] = "done"]
            /\ outcome' = [outcome EXCEPT ![r] = "ConcurrencyReached"]
            /\ UNCHANGED <<currentScans, proc>>
       ELSE /\ currentScans' = currentScans + 1
            /\ pc' = [pc EXCEPT ![r] = "running"]
            /\ proc' = [proc EXCEPT ![r] =
                          IF spawned THEN "running" ELSE "spawnFailed"]
            /\ UNCHANGED outcome
  /\ UNCHANGED <<cache, target, exitInfo, timer, signalSent, cacheWrite, dbWrite>>
  /\ UNCHANGED <<limiterVars, dataVars>>
ProbeReturned_ProbesInsideGate(r) ==
  /\ pc[r] = "probe"
  /\ \E available \in BOOLEAN, spawned \in BOOLEAN :
       IF GateFull(currentScans)
       THEN /\ pc' = [pc EXCEPT ![r] = "done"]
            /\ outcome' = [outcome EXCEPT ![r] = "ConcurrencyReached"]
            /\ UNCHANGED <<currentScans, proc, timer>>
       ELSE IF ~available
       THEN /\ currentScans' = currentScans + 1
            /\ pc' = [pc EXCEPT ![r] = "done"]
            /\ outcome' = [outcome EXCEPT ![r] = "ScannerUnavailable"]
            /\ UNCHANGED <<proc, timer>>
       ELSE /\ currentScans' = currentScans + 1
            /\ pc' = [pc EXCEPT ![r] = "running"]
            /\ proc' = [proc EXCEPT ![r] =
                          IF spawned THEN "running" ELSE "spawnFailed"]
            /\ timer' = [timer EXCEPT ![r] = "armed"]
            /\ UNCHANGED outcome
  /\ UNCHANGED <<cache, target, exitInfo, signalSent, cacheWrite, dbWrite>>
  /\ UNCHANGED <<limiterVars, dataVars>>
ProbeReturned(r) ==
  /\ pc[r] = "probe"
  /\ \E available \in BOOLEAN, spawned \in BOOLEAN :
       IF ~available
       THEN /\ pc' = [pc EXCEPT ![r] = "done"]
            /\ outcome' = [outcome EXCEPT ![r] = "ScannerUnavailable"]
            /\ UNCHANGED <<currentScans, proc, timer>>
       ELSE IF GateFull(currentScans)
       THEN /\ pc' = [pc EXCEPT ![r] = "done"]
            /\ outcome' = [outcome EXCEPT ![r] = "ConcurrencyReached"]
            /\ UNCHANGED <<currentScans, proc, timer>>
       ELSE /\ currentScans' = currentScans + 1
            /\ pc' = [pc EXCEPT ![r] = "running"]
            /\ proc' = [proc EXCEPT ![r] =
                          IF spawned THEN "running" ELSE "spawnFailed"]
            /\ timer' = [timer EXCEPT ![r] = "armed"]
            /\ UNCHANGED outcome
  /\ UNCHANGED <<cache, target, exitInfo, signalSent, cacheWrite, dbWrite>>
  /\ UNCHANGED <<limiterVars, dataVars>>

\* The two writes ScanService starts, without awaiting them, after a scan
\* that returned; a scan that threw skips them.
FireAndForget_Skipped(ok) == "none"
FireAndForget_Always(ok) == "pending"
FireAndForget(ok) == IF ok THEN "pending" ELSE "none"

\* The promise of executeWithTimeout settles and the awaiting code runs:
\* executeTruffleHog parses or classifies, scanRepository's finally block
\* releases the permit, ScanService builds the result and starts the cache
\* write.  A promise settles once: later resolve/reject calls do nothing.
Settle(r, ok, msg) ==
  IF pc[r] = "running"
  THEN /\ currentScans' = Release(currentScans)
       /\ pc' = [pc EXCEPT ![r] = "done"]
       /\ outcome' = [outcome EXCEPT ![r] =
                        IF ok THEN "fresh" ELSE Classify(msg)]
       /\ cacheWrite' = [cacheWrite EXCEPT ![r] = FireAndForget(ok)]
       /\ dbWrite' = [dbWrite EXCEPT ![r] = FireAndForget(ok)]
  ELSE UNCHANGED <<currentScans, pc, outcome, cacheWrite, dbWrite>>


\* ================================================ executeWithTimeout events
KillSignal == "SIGKILL"

\* exec() was given maxBuffer: when the output of the child grows beyond it,
\* exec stops reading and ends the child with its default kill signal,
\* SIGTERM.  No callback was passed to exec, so nothing else is reported.
MaxBufferSignal == "SIGTERM"
StdoutOverflow(r) ==
  /\ proc[r] = "running"
  /\ signalSent[r] = "none"
  /\ signalSent' = [signalSent EXCEPT ![r] = MaxBufferSignal]
  /\ UNCHANGED <<currentScans, cache, pc, target, outcome, proc, exitInfo,
                 timer, cacheWrite, dbWrite>>
  /\ UNCHANGED <<limiterVars, dataVars>>

\* The operating system ends the child process: it exits by itself (code 0,
\* a non-zero code), is ended by a signal from elsewhere, or dies of the
\* signal it was sent (SIGKILL cannot be caught, SIGTERM can).
ProcessEnds(r) ==
  /\ proc[r] = "running"
  /\ \E how \in {"zero", "nonzero", "SIGTERM", "SIGKILL"} :
       /\ signalSent[r] = "SIGKILL" => how = "SIGKILL"
       /\ exitInfo' = [exitInfo EXCEPT ![r] = how]
  /\ proc' = [proc EXCEPT ![r] = "exited"]
  /\ UNCHANGED <<currentScans, cache, pc, target, outcome, timer,
                 signalSent, cacheWrite, dbWrite>>
  /\ UNCHANGED <<limiterVars, dataVars>>

\* child.on('exit'): clearTimeout, then reject or resolve by signal and code.
ExitHandler(r) ==
  /\ proc[r] = "exited"
  /\ proc' = [proc EXCEPT ![r] = "reaped"]
  /\ timer' = [timer EXCEPT ![r] = IF @ = "armed" THEN "cleared" ELSE @]
  /\ \E stderr \in StderrTexts :
       IF exitInfo[r] = "SIGKILL" THEN Settle(r, FALSE, MsgKilled)
       ELSE IF exitInfo[r] = "nonzero" THEN Settle(r, FALSE, MsgExited(stderr))
       ELSE Settle(r, TRUE, {})
  /\ UNCHANGED <<cache, target, exitInfo, signalSent>>
  /\ UNCHANGED limiterVars

ChildExit(r) == ExitHandler(r) /\ UNCHANGED dataVars

\* child.on('error'): the process could not be spawned.
ChildError(r) ==
  /\ proc[r] = "spawnFailed"
  /\ proc' = [proc EXCEPT ![r] = "failed"]
  /\ timer' = [timer EXCEPT ![r] = IF @ = "armed" THEN "cleared" ELSE @]
  /\ Settle(r, FALSE, MsgSpawnError)
  /\ UNCHANGED <<cache, target, exitInfo, signalSent>>
  /\ UNCHANGED <<limiterVars, dataVars>>

\* The setTimeout callback: child.kill('SIGKILL'), reject('Command timeout').
\* A spawn failure is reported on the next tick, before any timer can run.
TimerFired(r) ==
  /\ timer[r] = "armed"
  /\ proc[r] # "spawnFailed"
  /\ timer' = [timer EXCEPT ![r] = "fired"]
  /\ signalSent' = [signalSent EXCEPT ![r] = KillSignal]
  /\ Settle(r, FALSE, MsgCommandTimeout)
  /\ UNCHANGED <<cache, target, proc, exitInfo>>
  /\ UNCHANGED <<limiterVars, dataVars>>

\* ===================================================== cache store events
\* The fire-and-forget cacheService.setScanResult completes (or fails).
CacheSet(r, storeOk) ==
  /\ cacheWrite[r] = "pending"
  /\ cacheWrite' = [cacheWrite EXCEPT ![r] =
                      IF storeOk THEN "stored" ELSE "failed"]
  /\ cache' = IF storeOk THEN cache \cup {target[r]} ELSE cache
  /\ UNCHANGED <<currentScans, pc, target, outcome, proc, exitInfo, timer,
                 signalSent, dbWrite>>
  /\ UNCHANGED limiterVars

CacheSetDone(r) == \E storeOk \in BOOLEAN : CacheSet(r, storeOk) /\ UNCHANGED dataVars

\* The fire-and-forget scanRepository.createScanRecord completes (or fails).
DbWriteDone(r) ==
  /\ dbWrite[r] = "pending"
  /\ \E dbOk \in BOOLEAN :
       dbWrite' = [dbWrite EXCEPT ![r] = IF dbOk THEN "stored" ELSE "failed"]
  /\ UNCHANGED <<currentScans, cache, pc, target, outcome, proc, exitInfo,
                 timer, signalSent, cacheWrite>>
  /\ UNCHANGED <<limiterVars, dataVars>>

\* An entry leaves the cache when its TTL runs out.
CacheExpire(t) ==
  /\ t \in cache
  /\ cache' = cache \ {t}
  /\ UNCHANGED <<currentScans, pc, target, outcome, proc, exitInfo, timer,
                 signalSent, cacheWrite, dbWrite>>
  /\ UNCHANGED <<limiterVars, dataVars>>


\* ============================================================ rate limiter
Calls == 1..NumCalls
Times == 0..MaxTime

RECURSIVE SumUpTo(_, _)
SumUpTo(f, n) == IF n < 0 THEN 0 ELSE f[n] + SumUpTo(f, n - 1)

\* ZCARD: the number of members of the sorted set
ZCard(z) == SumUpTo(z, MaxTime)

\* ZREMRANGEBYSCORE key lo hi: drops the members with lo <= score <= hi
ZRemRangeByScore_Exclusive(z, lo, hi) ==
  [t \in Times |-> IF lo <= t /\ t < hi THEN 0 ELSE z[t]]
ZRemRangeByScore(z, lo, hi) ==
  [t \in Times |-> IF lo <= t /\ t <= hi THEN 0 ELSE z[t]]

\* ZADD key score member: the member `${now}-${Math.random()}` is new
ZAdd(z, score) == [z EXCEPT ![score] = @ + 1]

\* EXPIRE key seconds, with seconds = Math.ceil(window / 1000): a key that
\* does not exist (an empty sorted set) gets no expiry.
Expire(z, at) == IF ZCard(z) > 0 THEN at + windowMs ELSE -1

\* the comparison that sends the 429
OverLimit(count) == count >= maxRequests

\* the 429 branch: it answers and returns without another store call
DenyBranch_Records(z, now) == ZAdd(z, now)
DenyBranch(z, now) == z

\* what the catch block of the middleware does with a store error
OnStoreError_Deny == "denied"
OnStoreError == "next"

LimiterInit ==
  /\ clock = 0
  /\ zset = [t \in Times |-> 0]
  /\ expireAt = -1
  /\ rlpc = [c \in Calls |-> "idle"]
  /\ rlnow = [c \in Calls |-> 0]
  /\ rlfailed = [c \in Calls |-> FALSE]
  /\ admitted = [t \in Times |-> 0]

InFlight(c) == rlpc[c] \in {"multi", "zadd"}

\* The middleware is entered: key, now and windowStart are computed, the
\* transaction is queued and sent.
RLStart(c) ==
  /\ ~InFlight(c)
  /\ rlpc' = [rlpc EXCEPT ![c] = "multi"]
  /\ rlnow' = [rlnow EXCEPT ![c] = clock]
  /\ rlfailed' = [rlfailed EXCEPT ![c] = FALSE]
  /\ UNCHANGED <<clock, zset, expireAt, admitted>>
  /\ UNCHANGED <<scanVars, dataVars>>

\* The store runs the transaction (zremrangebyscore, zcard, expire) as one
\* unit and the middleware continues: 429 when the count is at the limit,
\* otherwise it sends the zadd.  A failed transaction goes to the catch block.
RLMulti(c) ==
  /\ rlpc[c] = "multi"
  /\ \E storeOk \in BOOLEAN :
       IF storeOk
       THEN LET z1 == ZRemRangeByScore(zset, 0, rlnow[c] - windowMs)
                currentCount == ZCard(z1)
            IN /\ zset' = IF OverLimit(currentCount)
                          THEN DenyBranch(z1, rlnow[c]) ELSE z1
               /\ expireAt' = Expire(z1, clock)
               /\ rlpc' = [rlpc EXCEPT ![c] =
                             IF OverLimit(currentCount) THEN "denied"
                             ELSE "zadd"]
               /\ UNCHANGED rlfailed
       ELSE /\ rlpc' = [rlpc EXCEPT ![c] = OnStoreError]
            /\ rlfailed' = [rlfailed EXCEPT ![c] = TRUE]
            /\ UNCHANGED <<zset, expireAt>>
  /\ rlnow' = [rlnow EXCEPT ![c] = IF rlpc'[c] = "zadd" THEN @ ELSE 0]
  /\ UNCHANGED <<clock, admitted>>
  /\ UNCHANGED <<scanVars, dataVars>>

\* The store runs the zadd and the middleware sets the headers and calls
\* next().  A failed zadd goes to the catch block.
RLZadd(c) ==
  /\ rlpc[c] = "zadd"
  /\ \E storeOk \in BOOLEAN :
       IF storeOk
       THEN /\ zset' = ZAdd(zset, rlnow[c])
            /\ admitted' = [admitted EXCEPT ![rlnow[c]] = @ + 1]
            /\ rlpc' = [rlpc EXCEPT ![c] = "next"]
            /\ UNCHANGED rlfailed
       ELSE /\ rlpc' = [rlpc EXCEPT ![c] = OnStoreError]
            /\ rlfailed' = [rlfailed EXCEPT ![c] = TRUE]
            /\ UNCHANGED <<zset, admitted>>
  /\ rlnow' = [rlnow EXCEPT ![c] = 0]
  /\ UNCHANGED <<clock, expireAt>>
  /\ UNCHANGED <<scanVars, dataVars>>

\* Time passes; the store drops the key when its expiry is reached.
Tick ==
  /\ clock < MaxTime
  /\ clock' = clock + 1
  /\ IF expireAt # -1 /\ clock + 1 >= expireAt
     THEN /\ zset' = [t \in Times |-> 0]
          /\ expireAt' = -1
     ELSE UNCHANGED <<zset, expireAt>>
  /\ UNCHANGED <<rlpc, rlnow, rlfailed, admitted>>
  /\ UNCHANGED <<scanVars, dataVars>>

\* Sequential use with a healthy store: an admit call starts when no other
\* one is in flight, no store call fails, and the store answers before time
\* moves on.
NoneInFlight == \A c \in Calls : ~InFlight(c)
RLStartSeq(c) == NoneInFlight /\ RLStart(c)
RLMultiOk(c) == RLMulti(c) /\ ~rlfailed'[c]
RLZaddOk(c) == RLZadd(c) /\ ~rlfailed'[c]
TickSeq == NoneInFlight /\ Tick

\* =========================================================== cache service
RepoUrls == {"u1", "u2"}
CacheTargets == RepoUrls \X Providers
Absent == [type |-> "absent"]
Null == [type |-> "null"]
Undefined == [type |-> "undefined"]
\* a JavaScript boolean, a JavaScript number and a JavaScript string
Bool(b) == [type |-> "boolean", value |-> b]
Num(n) == [type |-> "number", value |-> n]
Str(x) == [type |-> "string", value |-> x]
\* what `if (v)`, `v || d` and filter(v => v) take for true
Truthy(v) == v \notin {Undefined, Null, Bool(FALSE)}

\* crypto.createHash('md5').update(repoUrl).digest('hex'): a digest, taken
\* to be free of collisions on the repository URLs
Md5(repoUrl) == <<"md5", repoUrl>>

\* `scan:${provider}:${urlHash}`, by its three components
generateCacheKey_NoProvider(repoUrl, provider) == <<"scan", "any", Md5(repoUrl)>>
generateCacheKey(repoUrl, provider) == <<"scan", provider, Md5(repoUrl)>>

KeyOf(t) == generateCacheKey(t[1], t[2])
CacheKeys == {generateCacheKey(u, p) : u \in RepoUrls, p \in Providers}
                \cup {generateCacheKey_NoProvider(u, "any") : u \in RepoUrls}

\* the glob of redis.keys: `*` stands for any component
Matches_Exact(key, pattern) == key = pattern
Matches(key, pattern) ==
  /\ Len(key) = Len(pattern)
  /\ \A i \in 1..Len(pattern) : pattern[i] = "*" \/ pattern[i] = key[i]

\* the findings of a scan, as the parser hands them over
FindingLists == {<< >>,
                 <<[Verified |-> Bool(TRUE)]>>,
                 <<[Verified |-> Bool(TRUE)], [Verified |-> Bool(FALSE)]>>}

RECURSIVE CountVerified(_)
CountVerified(fs) ==
  IF fs = << >> THEN 0
  ELSE (IF Truthy(Head(fs).Verified) THEN 1 ELSE 0) + CountVerified(Tail(fs))

\* new Date(): a Date object holding an instant
DateOf(ms) == [type |-> "Date", ms |-> ms]
\* Date.prototype.toJSON: the ISO string of the instant
ToISOString(ms) == [type |-> "string", text |-> <<"iso", ms>>]

\* the ScanResult that ScanService builds from the findings of a fresh scan
MakeScanResult_CountsAll(repoUrl, provider, vulnerabilities, now) ==
  [repoUrl |-> repoUrl, provider |-> provider,
   vulnerabilities |-> vulnerabilities,
   metadata |-> [totalVulnerabilities |-> Len(vulnerabilities),
                 verifiedVulnerabilities |-> Len(vulnerabilities),
                 scanDuration |-> 1,
                 scannedAt |-> DateOf(now)]]
MakeScanResult(repoUrl, provider, vulnerabilities, now) ==
  [repoUrl |-> repoUrl, provider |-> provider,
   vulnerabilities |-> vulnerabilities,
   metadata |-> [totalVulnerabilities |-> Len(vulnerabilities),
                 verifiedVulnerabilities |-> CountVerified(vulnerabilities),
                 scanDuration |-> 1,
                 scannedAt |-> DateOf(now)]]

ScanResults ==
  {MakeScanResult(t[1], t[2], fs, 1) : t \in CacheTargets, fs \in FindingLists}

\* JSON.stringify(result): strings, numbers, booleans, arrays and plain
\* objects are written as they are; a Date is written as its ISO string.
JSONStringify(result) ==
  [json |-> [result EXCEPT !.metadata.scannedAt = ToISOString(@.ms)]]
\* JSON.parse(text) without a reviver: what the text denotes, strings as
\* strings
JSONParse(text) == text.json

CacheInit ==
  /\ store = [k \in CacheKeys |-> Absent]
  /\ lastSet = [t \in CacheTargets |-> Null]
  /\ call = [op |-> "none", target |-> <<"", "">>, ok |-> TRUE]
  /\ returned = Null
  /\ found = {}

\* setScanResult(repoUrl, provider, result): SETEX under the key; a store
\* error is caught and false is returned.
setScanResult(t, result, storeOk) ==
  /\ IF storeOk
     THEN /\ store' = [store EXCEPT ![KeyOf(t)] = JSONStringify(result)]
          /\ lastSet' = [lastSet EXCEPT ![t] = result]
     ELSE UNCHANGED <<store, lastSet>>
  /\ call' = [op |-> "setScanResult", target |-> t, ok |-> storeOk]
  /\ returned' = Bool(storeOk)
  /\ UNCHANGED found
  /\ UNCHANGED <<scanVars, limiterVars, traceVars, parserVars, commandVars, extraVars>>

\* ScanService after a fresh scan: it builds the result and hands a copy to
\* the cache.
StoreFresh ==
  \E t \in CacheTargets, fs \in FindingLists, storeOk \in BOOLEAN :
    setScanResult(t, MakeScanResult(t[1], t[2], fs, 1), storeOk)

\* getScanResult(repoUrl, provider): GET and JSON.parse; null when the key is
\* absent and when the store fails.
getScanResult(t, storeOk) ==
  /\ call' = [op |-> "getScanResult", target |-> t, ok |-> storeOk]
  /\ returned' = IF storeOk /\ store[KeyOf(t)] # Absent
                 THEN JSONParse(store[KeyOf(t)])
                 ELSE Null
  /\ UNCHANGED <<store, lastSet, found>>
  /\ UNCHANGED <<scanVars, limiterVars, traceVars, parserVars, commandVars, extraVars>>

ReadCache == \E t \in CacheTargets, storeOk \in BOOLEAN : getScanResult(t, storeOk)

\* invalidateRepository(repoUrl), up to the answer of redis.keys: no key
\* found returns 0, a store error is caught and returns 0.
InvalidateKeys(repoUrl, storeOk) ==
  /\ found = {}
  /\ LET pattern == <<"scan", "*", Md5(repoUrl)>>
         keys == {k \in CacheKeys : store[k] # Absent /\ Matches(k, pattern)}
     IN IF storeOk /\ keys # {}
        THEN /\ found' = keys
             /\ UNCHANGED returned
        ELSE /\ found' = {}
             /\ returned' = Num(0)
  /\ call' = [op |-> "invalidateRepository", target |-> <<repoUrl, "*">>,
              ok |-> storeOk]
  /\ UNCHANGED <<store, lastSet>>
  /\ UNCHANGED <<scanVars, limiterVars, traceVars, parserVars, commandVars, extraVars>>

\* invalidateRepository, the answer of redis.del(...keys): the number of
\* keys that were there to delete; a store error is caught and returns 0.
InvalidateDel(storeOk) ==
  /\ found # {}
  /\ IF storeOk
     THEN /\ store' = [k \in CacheKeys |-> IF k \in found THEN Absent ELSE store[k]]
          /\ lastSet' = [t \in CacheTargets |->
                           IF KeyOf(t) \in found THEN Null ELSE lastSet[t]]
          /\ returned' = Num(Cardinality({k \in found : store[k] # Absent}))
     ELSE /\ returned' = Num(0)
          /\ UNCHANGED <<store, lastSet>>
  /\ call' = [op |-> "invalidateRepository",
              target |-> <<(CHOOSE k \in found : TRUE)[3][2], "*">>,
              ok |-> storeOk]
  /\ found' = {}
  /\ UNCHANGED <<scanVars, limiterVars, traceVars, parserVars, commandVars, extraVars>>

\* An entry leaves the store when its TTL runs out.
KeyExpires(k) ==
  /\ store[k] # Absent
  /\ store' = [store EXCEPT ![k] = Absent]
  /\ lastSet' = [t \in CacheTargets |-> IF KeyOf(t) = k THEN Null ELSE lastSet[t]]
  /\ UNCHANGED <<call, returned, found>>
  /\ UNCHANGED <<scanVars, limiterVars, traceVars, parserVars, commandVars, extraVars>>

\* =========================================================== result parser
\* A line of the output is blank, or text that JSON.parse rejects, or the
\* JSON literal null, or a JSON object, of which the parser reads the fields,
\* or another JSON value (a number, a string, a boolean, an array): reading a
\* field of such a value gives undefined.
EmptyMap == [type |-> "object"]
ObjectLines ==
  [kind : {"object"}, Raw : {Str("a"), Str("b")},
   Verified : {Undefined, Bool(TRUE), Bool(FALSE)},
   ExtraData : {Undefined, [type |-> "object", k |-> "v"]}]
OtherLines ==
  {[kind |-> k, Raw |-> Undefined, Verified |-> Undefined,
    ExtraData |-> Undefined] :
     k \in {"blank", "malformed", "null", "scalar"}}
Lines == ObjectLines \cup OtherLines

\* the operator || of JavaScript
OrDefault_Keeps(v, d) == v
OrDefault(v, d) == IF Truthy(v) THEN v ELSE d

\* the TruffleHogResult built from a decoded line
MakeResult(line) ==
  [Raw |-> line.Raw,
   Verified |-> OrDefault(line.Verified, Bool(FALSE)),
   ExtraData |-> OrDefault(line.ExtraData, EmptyMap)]

\* the body of the try block throws: JSON.parse on bad text, the first
\* field read on null
Throws(line) == line.kind \in {"malformed", "null"}

\* the loop over the lines: a blank line is skipped, a line that throws is
\* logged in the catch block and the loop goes on
RECURSIVE ParseLines_StopsAtError(_)
ParseLines_StopsAtError(ls) ==
  IF ls = << >> THEN << >>
  ELSE IF Head(ls).kind = "blank" THEN ParseLines_StopsAtError(Tail(ls))
  ELSE IF Throws(Head(ls)) THEN << >>
  ELSE <<MakeResult(Head(ls))>> \o ParseLines_StopsAtError(Tail(ls))
RECURSIVE ParseLines(_)
ParseLines(ls) ==
  IF ls = << >> THEN << >>
  ELSE IF Head(ls).kind = "blank" THEN ParseLines(Tail(ls))
  ELSE IF Throws(Head(ls)) THEN ParseLines(Tail(ls))
  ELSE <<MakeResult(Head(ls))>> \o ParseLines(Tail(ls))

parseTruffleHogOutput(out) ==
  IF \A i \in 1..Len(out) : out[i].kind = "blank" THEN << >>
  ELSE ParseLines(out)

Outputs == UNION {[1..n -> Lines] : n \in 0..MaxLines}

ParserIdle ==
  /\ output = << >>
  /\ parsed = FALSE
  /\ results = << >>

\* executeTruffleHog hands the stdout of the run to the parser
ParseOutput ==
  /\ ~parsed
  /\ parsed' = TRUE
  /\ results' = parseTruffleHogOutput(output)
  /\ UNCHANGED output
  /\ UNCHANGED <<scanVars, limiterVars, cacheVars, traceVars, commandVars, extraVars>>

\* ========================================================= scanner command
\* A URL is a string over a few characters; the host names that
\* buildTruffleHogCommand looks for stand as one symbol each.
Chars == {"a", "'", " ", ";", "github.com", "gitlab.com"}
UrlStrings == UNION {[1..n -> Chars] : n \in 1..MaxUrlLen}

\* String.prototype.includes
Includes(str, sym) == \E i \in 1..Len(str) : str[i] = sym

\* arg.replace(/'/g, "'\"'\"'") between two single quotes
RECURSIVE ReplaceQuotes(_)
ReplaceQuotes(arg) ==
  IF arg = << >> THEN << >>
  ELSE (IF Head(arg) = "'" THEN <<"'", "\"", "'", "\"", "'">> ELSE <<Head(arg)>>)
       \o ReplaceQuotes(Tail(arg))
escapeShellArg(arg) == <<"'">> \o ReplaceQuotes(arg) \o <<"'">>

\* the command line, one string
buildTruffleHogCommand(repo) ==
  LET subcommand == IF Includes(repo, "gitlab.com") THEN "gitlab"
                    ELSE IF Includes(repo, "github.com") THEN "github"
                    ELSE "git"
      flags == <<" ", "--json", " ", "--no-verification", " ", "--concurrency=1">>
  IN IF subcommand = "git"
     THEN <<"trufflehog", " ", "git", " ">> \o escapeShellArg(repo) \o flags
     ELSE <<"trufflehog", " ", subcommand, " ", "--repo=">>
            \o escapeShellArg(repo) \o flags

CommandIdle ==
  /\ url = << >>
  /\ childFile = "none"
  /\ childArgs = << >>

\* child_process.exec(command, options): the command string is handed to a
\* shell, `/bin/sh -c command`.
ExecCommand ==
  /\ childFile = "none"
  /\ url # << >>
  /\ childFile' = "/bin/sh"
  /\ childArgs' = << <<"-c">>, buildTruffleHogCommand(url) >>
  /\ UNCHANGED url
  /\ UNCHANGED <<scanVars, limiterVars, cacheVars, traceVars, parserVars, extraVars>>

\* ============================================ the connection to the store
\* ScanService and CacheService over the one ioredis connection (`redis`):
\* a command is sent in the step that calls it, the store runs the commands
\* of a connection in the order they were sent, and the replies come back
\* in that order.  The store is healthy here: every command is answered.
Cmd(op, r) == [op |-> op, r |-> r]

\* the command that is answered next is the oldest unanswered one
Answerable_AnyOrder(i) == TRUE
Answerable(i) == i = 1

Remove(q, i) == SubSeq(q, 1, i - 1) \o SubSeq(q, i + 1, Len(q))
Invalidating == \E i \in 1..Len(sent) : sent[i].op \in {"keys", "del"}

\* ScanService.scanRepository is entered: getScanResult sends the GET
StartScanOrdered(r) ==
  /\ BeginScan(r)
  /\ sent' = Append(sent, Cmd("get", r))
  /\ freshBefore' = [freshBefore EXCEPT ![r] =
                       {q \in Req : /\ pc[q] = "done" /\ outcome[q] = "fresh"
                                    /\ target[q] = target'[r]}]
  /\ UNCHANGED <<invKeys, stale, overtaken>>
  /\ UNCHANGED <<cacheVars, traceVars, parserVars, commandVars,
                 message, reported, streamVars, quota>>

\* the GET is answered
CacheAnswered(r) ==
  /\ \E i \in 1..Len(sent) :
       /\ Answerable(i)
       /\ sent[i] = Cmd("get", r)
       /\ sent' = Remove(sent, i)
  /\ CacheRead(r, TRUE)
  /\ UNCHANGED <<invKeys, stale, overtaken, freshBefore>>
  /\ UNCHANGED <<cacheVars, traceVars, parserVars, commandVars,
                 message, reported, streamVars, quota>>

\* child.on('exit'); after a successful run setScanResult sends the SETEX
\* before ScanService returns the result
ChildExitOrdered(r) ==
  /\ ExitHandler(r)
  /\ sent' = IF cacheWrite'[r] = "pending" /\ cacheWrite[r] = "none"
             THEN Append(sent, Cmd("setex", r))
             ELSE sent
  /\ UNCHANGED <<invKeys, stale, overtaken, freshBefore>>
  /\ UNCHANGED <<cacheVars, traceVars, parserVars, commandVars,
                 message, reported, streamVars, quota>>

\* the SETEX is answered
CacheSetAnswered(r) ==
  /\ \E i \in 1..Len(sent) :
       /\ Answerable(i)
       /\ sent[i] = Cmd("setex", r)
       /\ sent' = Remove(sent, i)
  /\ CacheSet(r, TRUE)
  /\ stale' = IF r \in overtaken THEN stale \cup {target[r]}
              ELSE stale \ {target[r]}
  /\ UNCHANGED <<invKeys, overtaken, freshBefore>>
  /\ UNCHANGED <<cacheVars, traceVars, parserVars, commandVars,
                 message, reported, streamVars, quota>>

\* invalidateRepository(repoUrl) is called and sends KEYS scan:*:{urlHash}
InvalidateCalled(repoUrl) ==
  /\ ~Invalidating
  /\ sent' = Append(sent, Cmd("keys", 0))
  /\ overtaken' = overtaken \cup {r \in Req : pc[r] # "idle"}
  /\ UNCHANGED <<invKeys, stale, freshBefore>>
  /\ UNCHANGED <<scanVars, limiterVars>>
  /\ UNCHANGED <<cacheVars, traceVars, parserVars, commandVars,
                 message, reported, streamVars, quota>>

\* KEYS is answered: no key returns 0, otherwise DEL is sent for the keys
InvalidateKeysAnswered(repoUrl) ==
  /\ \E i \in 1..Len(sent) :
       /\ Answerable(i)
       /\ sent[i] = Cmd("keys", 0)
       /\ LET keys == {t \in cache : t[1] = repoUrl}
          IN /\ invKeys' = keys
             /\ sent' = IF keys = {} THEN Remove(sent, i)
                        ELSE Append(Remove(sent, i), Cmd("del", 0))
  /\ UNCHANGED <<stale, overtaken, freshBefore>>
  /\ UNCHANGED <<scanVars, limiterVars>>
  /\ UNCHANGED <<cacheVars, traceVars, parserVars, commandVars,
                 message, reported, streamVars, quota>>

\* DEL is answered and invalidateRepository returns
InvalidateDelAnswered ==
  /\ \E i \in 1..Len(sent) :
       /\ Answerable(i)
       /\ sent[i] = Cmd("del", 0)
       /\ sent' = Remove(sent, i)
  /\ cache' = cache \ invKeys
  /\ stale' = stale \ invKeys
  /\ invKeys' = {}
  /\ UNCHANGED <<overtaken, freshBefore>>
  /\ UNCHANGED <<currentScans, pc, target, outcome, proc, exitInfo, timer,
                 signalSent, cacheWrite, dbWrite>>
  /\ UNCHANGED limiterVars
  /\ UNCHANGED <<cacheVars, traceVars, parserVars, commandVars,
                 message, reported, streamVars, quota>>

\* ======================================================== error classifier
\* the substrings that executeTruffleHog looks for in error.message
Markers == {"timeout", "not found", "command not found", "permission denied",
            "access denied", "repository not found", "404"}
\* an error message, by the markers it contains: one that contains
\* "command not found" or "repository not found" contains "not found"
Messages ==
  {m \in SUBSET Markers :
     /\ "command not found" \in m => "not found" \in m
     /\ "repository not found" \in m => "not found" \in m}

ClassifyIdle ==
  /\ message = {}
  /\ reported = "none"

\* the catch block of executeTruffleHog runs on the rejected error
ClassifyError ==
  /\ reported = "none"
  /\ reported' = Classify(message)
  /\ UNCHANGED message
  /\ UNCHANGED <<scanVars, limiterVars, cacheVars, traceVars, parserVars,
                 commandVars, streamVars, quota, orderVars>>

\* ================================================== output of the scanner
\* One run of executeWithTimeout that ends before its deadline, seen from the
\* stdout pipe.  The child writes chunks; each arrives in a 'data' event of
\* child.stdout.  The 'exit' event of the child is emitted when the process
\* has ended, whether or not its stdio streams have been read to the end:
\* 'data' events and the 'exit' event come in any order.
\* the child process writes to its standard output
ChildWrites ==
  /\ childCode = "running"
  /\ Len(chunks) < MaxChunks
  /\ \E c \in {"a", "b"} : chunks' = Append(chunks, c)
  /\ UNCHANGED <<stdout, childCode, promise, resolvedWith>>
  /\ UNCHANGED <<scanVars, limiterVars, cacheVars, traceVars, parserVars,
                 commandVars, message, reported, quota, orderVars>>

\* the child process ends by itself
ChildEnds ==
  /\ childCode = "running"
  /\ \E code \in {"zero", "nonzero"} : childCode' = code
  /\ UNCHANGED <<chunks, stdout, promise, resolvedWith>>
  /\ UNCHANGED <<scanVars, limiterVars, cacheVars, traceVars, parserVars,
                 commandVars, message, reported, quota, orderVars>>

\* child.stdout.on('data'): stdout += data
OnStdoutData ==
  /\ Len(stdout) < Len(chunks)
  /\ stdout' = Append(stdout, chunks[Len(stdout) + 1])
  /\ UNCHANGED <<chunks, childCode, promise, resolvedWith>>
  /\ UNCHANGED <<scanVars, limiterVars, cacheVars, traceVars, parserVars,
                 commandVars, message, reported, quota, orderVars>>

\* child.on('exit'): a non-zero code rejects, code 0 resolves with the
\* stdout collected so far
OnExit ==
  /\ childCode # "running"
  /\ promise = "pending"
  /\ IF childCode = "nonzero"
     THEN /\ promise' = "rejected"
          /\ UNCHANGED resolvedWith
     ELSE /\ promise' = "resolved"
          /\ resolvedWith' = stdout
  /\ UNCHANGED <<chunks, stdout, childCode>>
  /\ UNCHANGED <<scanVars, limiterVars, cacheVars, traceVars, parserVars,
                 commandVars, message, reported, quota, orderVars>>

\* ========================================================= the POST /scan chain
\* app.use(rateLimiter) and, on the route, scanRateLimiter, validateScanRequest
\* and scanController.scanRepository.  Here a pass through a limiter is seen
\* from the request: the count the transaction returns and the health of the
\* store are inputs, the decision is the middleware's.  pc[r] names the store
\* call the request is waiting for.
Counts == 0..maxRequests

\* what the middleware does with the answer of the transaction
LimiterVerdict_NoRecord(currentCount, storeOk) ==
  IF ~storeOk THEN OnStoreError
  ELSE IF OverLimit(currentCount) THEN "denied"
  ELSE "next"
LimiterVerdict(currentCount, storeOk) ==
  IF ~storeOk THEN OnStoreError
  ELSE IF OverLimit(currentCount) THEN "denied"
  ELSE "zadd"

\* the 429 branch answers and returns: next() is not called
AfterDeny_CallsNext(nextStage) == nextStage
AfterDeny(nextStage) == "done"

\* The request arrives; helmet and cors call next() and the general limiter
\* sends its transaction.
Arrive(r) ==
  /\ pc[r] = "idle"
  /\ pc' = [pc EXCEPT ![r] = "general.multi"]
  /\ UNCHANGED <<currentScans, cache, target, outcome, proc, exitInfo, timer,
                 signalSent, cacheWrite, dbWrite>>
  /\ UNCHANGED <<limiterVars, dataVars>>

\* validateScanRequest, then the controller, which calls
\* ScanService.scanRepository; that one awaits the cache read.
EnterRoute(r) ==
  \E valid \in BOOLEAN :
    IF valid
    THEN /\ \E t \in Targets : target' = [target EXCEPT ![r] = t]
         /\ pc' = [pc EXCEPT ![r] = "cacheCheck"]
         /\ UNCHANGED outcome
    ELSE /\ pc' = [pc EXCEPT ![r] = "done"]
         /\ outcome' = [outcome EXCEPT ![r] = "ValidationFailed"]
         /\ UNCHANGED target

\* The transaction of the general limiter returns.
GeneralMultiReturns(r, currentCount, storeOk) ==
  /\ pc[r] = "general.multi"
  /\ LET verdict == LimiterVerdict(currentCount, storeOk)
     IN IF verdict = "denied"
        THEN /\ pc' = [pc EXCEPT ![r] = AfterDeny("scan.multi")]
             /\ outcome' = [outcome EXCEPT ![r] = "RateLimited"]
        ELSE /\ pc' = [pc EXCEPT ![r] =
                         IF verdict = "zadd" THEN "general.zadd"
                         ELSE "scan.multi"]
             /\ UNCHANGED outcome
  /\ UNCHANGED <<currentScans, cache, target, proc, exitInfo, timer,
                 signalSent, cacheWrite, dbWrite>>
  /\ UNCHANGED limiterVars

GeneralMulti(r) ==
  \E currentCount \in Counts, storeOk \in BOOLEAN :
    GeneralMultiReturns(r, currentCount, storeOk) /\ UNCHANGED dataVars

\* The zadd of the general limiter returns (or fails): next() either way; the
\* body parser runs and the scan limiter sends its transaction.
GeneralZaddReturns(r, storeOk) ==
  /\ pc[r] = "general.zadd"
  /\ pc' = [pc EXCEPT ![r] = "scan.multi"]
  /\ UNCHANGED <<currentScans, cache, target, outcome, proc, exitInfo, timer,
                 signalSent, cacheWrite, dbWrite>>
  /\ UNCHANGED limiterVars

GeneralZadd(r) ==
  \E storeOk \in BOOLEAN : GeneralZaddReturns(r, storeOk) /\ UNCHANGED dataVars

\* The transaction of the scan limiter returns.
ScanMultiReturns(r, currentCount, storeOk) ==
  /\ pc[r] = "scan.multi"
  /\ LET verdict == LimiterVerdict(currentCount, storeOk)
     IN IF verdict = "denied"
        THEN /\ pc' = [pc EXCEPT ![r] = AfterDeny("cacheCheck")]
             /\ outcome' = [outcome EXCEPT ![r] = "RateLimited"]
             /\ UNCHANGED target
        ELSE IF verdict = "zadd"
        THEN /\ pc' = [pc EXCEPT ![r] = "scan.zadd"]
             /\ UNCHANGED <<outcome, target>>
        ELSE EnterRoute(r)
  /\ UNCHANGED <<currentScans, cache, proc, exitInfo, timer,
                 signalSent, cacheWrite, dbWrite>>
  /\ UNCHANGED limiterVars

ScanMulti(r) ==
  \E currentCount \in Counts, storeOk \in BOOLEAN :
    ScanMultiReturns(r, currentCount, storeOk) /\ UNCHANGED dataVars

\* The zadd of the scan limiter returns (or fails): next() either way.
ScanZaddReturns(r, storeOk) ==
  /\ pc[r] = "scan.zadd"
  /\ EnterRoute(r)
  /\ UNCHANGED <<currentScans, cache, proc, exitInfo, timer,
                 signalSent, cacheWrite, dbWrite>>
  /\ UNCHANGED limiterVars

ScanZadd(r) ==
  \E storeOk \in BOOLEAN : ScanZaddReturns(r, storeOk) /\ UNCHANGED dataVars

\* The same four steps, keeping what each limiter has done in the store for
\* the request: its zadd has run, or one of its store calls has failed.
Limiters == {"general", "scan"}

QuotaAfter(r, l, step, storeOk) ==
  [quota EXCEPT ![r][l] = IF ~storeOk THEN "error"
                          ELSE IF step = "zadd" THEN "recorded"
                          ELSE @]

GeneralMultiTraced(r) ==
  \E currentCount \in Counts, storeOk \in BOOLEAN :
    /\ GeneralMultiReturns(r, currentCount, storeOk)
    /\ quota' = QuotaAfter(r, "general", "multi", storeOk)
    /\ UNCHANGED <<cacheVars, traceVars, parserVars, commandVars,
                   message, reported, streamVars, orderVars>>

GeneralZaddTraced(r) ==
  \E storeOk \in BOOLEAN :
    /\ GeneralZaddReturns(r, storeOk)
    /\ quota' = QuotaAfter(r, "general", "zadd", storeOk)
    /\ UNCHANGED <<cacheVars, traceVars, parserVars, commandVars,
                   message, reported, streamVars, orderVars>>

ScanMultiTraced(r) ==
  \E currentCount \in Counts, storeOk \in BOOLEAN :
    /\ ScanMultiReturns(r, currentCount, storeOk)
    /\ quota' = QuotaAfter(r, "scan", "multi", storeOk)
    /\ UNCHANGED <<cacheVars, traceVars, parserVars, commandVars,
                   message, reported, streamVars, orderVars>>

ScanZaddTraced(r) ==
  \E storeOk \in BOOLEAN :
    /\ ScanZaddReturns(r, storeOk)
    /\ quota' = QuotaAfter(r, "scan", "zadd", storeOk)
    /\ UNCHANGED <<cacheVars, traceVars, parserVars, commandVars,
                   message, reported, streamVars, orderVars>>

\* ========================================================== specifications
TraceInit == cacheRead = [r \in Req |-> "none"]

\* no scanner run, no request in the middleware chain, no command sent
ExtraIdle ==
  /\ chunks = << >>
  /\ stdout = << >>
  /\ childCode = "running"
  /\ promise = "pending"
  /\ resolvedWith = << >>
  /\ quota = [r \in Req |-> [l \in Limiters |-> "none"]]
  /\ sent = << >>
  /\ invKeys = {}
  /\ stale = {}
  /\ overtaken = {}
  /\ freshBefore = [r \in Req |-> {}]

Init ==
  /\ ScanInit /\ LimiterInit /\ CacheInit /\ TraceInit
  /\ ParserIdle /\ CommandIdle /\ ClassifyIdle /\ ExtraIdle

\* the error classifier on every error message
InitClassify ==
  /\ ScanInit /\ LimiterInit /\ CacheInit /\ TraceInit
  /\ ParserIdle /\ CommandIdle /\ ExtraIdle
  /\ message \in Messages
  /\ reported = "none"

NextClassify == ClassifyError

SpecClassify == InitClassify /\ [][NextClassify]_vars

\* the output of one scanner run, from the pipe to the promise
NextStream ==
  \/ ChildWrites
  \/ ChildEnds
  \/ OnStdoutData
  \/ OnExit

SpecStream == Init /\ [][NextStream]_vars

\* the scanner command for every URL of up to MaxUrlLen characters
InitCommand ==
  /\ ScanInit /\ LimiterInit /\ CacheInit /\ TraceInit /\ ParserIdle
  /\ ClassifyIdle /\ ExtraIdle
  /\ url \in UrlStrings
  /\ childFile = "none"
  /\ childArgs = << >>

NextCommand == ExecCommand

SpecCommand == InitCommand /\ [][NextCommand]_vars

\* the result parser on every output of up to MaxLines lines
InitParser ==
  /\ ScanInit /\ LimiterInit /\ CacheInit /\ TraceInit /\ CommandIdle
  /\ ClassifyIdle /\ ExtraIdle
  /\ output \in Outputs
  /\ parsed = FALSE
  /\ results = << >>

NextParser == ParseOutput

SpecParser == InitParser /\ [][NextParser]_vars

Next ==
  \/ \E r \in Req : StartScan(r)
  \/ \E r \in Req : CacheChecked(r)
  \/ \E r \in Req : ProbeReturned(r)
  \/ \E r \in Req : ProcessEnds(r)
  \/ \E r \in Req : ChildExit(r)
  \/ \E r \in Req : ChildError(r)
  \/ \E r \in Req : TimerFired(r)
  \/ \E r \in Req : CacheSetDone(r)
  \/ \E t \in Targets : CacheExpire(t)

\* the scan orchestrator, the gate and the process runner
Spec == Init /\ [][Next]_vars

\* the same, with the event loop delivering what is due: the exit event of
\* a process that has ended, the error event of a failed spawn, and the
\* callback of an armed timer: as long as one of them is due, one of them
\* runs.  That a process ends is not assumed.
Delivered == \E r \in Req : ChildExit(r) \/ ChildError(r) \/ TimerFired(r)
Fairness == WF_vars(Delivered)

SpecLive == Init /\ [][Next]_vars /\ Fairness

\* the same, with scanner output that can grow beyond maxBuffer
NextBuffer ==
  \/ Next
  \/ \E r \in Req : StdoutOverflow(r)

SpecBuffer == Init /\ [][NextBuffer]_vars

\* the same, with the outcome of the persistence write
NextPersist ==
  \/ Next
  \/ \E r \in Req : DbWriteDone(r)

SpecPersist == Init /\ [][NextPersist]_vars

\* POST /scan behind its two rate limiters
NextPipeline ==
  \/ \E r \in Req : Arrive(r)
  \/ \E r \in Req : GeneralMulti(r)
  \/ \E r \in Req : GeneralZadd(r)
  \/ \E r \in Req : ScanMulti(r)
  \/ \E r \in Req : ScanZadd(r)
  \/ \E r \in Req : CacheChecked(r)
  \/ \E r \in Req : ProbeReturned(r)
  \/ \E r \in Req : ProcessEnds(r)
  \/ \E r \in Req : ChildExit(r)
  \/ \E r \in Req : ChildError(r)
  \/ \E r \in Req : TimerFired(r)
  \/ \E r \in Req : CacheSetDone(r)
  \/ \E t \in Targets : CacheExpire(t)

SpecPipeline == Init /\ [][NextPipeline]_vars

\* the middleware chain of POST /scan, up to the call of the controller
NextQuota ==
  \/ \E r \in Req : Arrive(r)
  \/ \E r \in Req : GeneralMultiTraced(r)
  \/ \E r \in Req : GeneralZaddTraced(r)
  \/ \E r \in Req : ScanMultiTraced(r)
  \/ \E r \in Req : ScanZaddTraced(r)

SpecQuota == Init /\ [][NextQuota]_vars

\* the scan orchestrator over the one connection to a healthy store, within
\* the TTL of the entries
NextDedup ==
  \/ \E r \in Req : StartScanOrdered(r)
  \/ \E r \in Req : CacheAnswered(r)
  \/ \E r \in Req : ProbeReturned(r)
  \/ \E r \in Req : ProcessEnds(r)
  \/ \E r \in Req : ChildExitOrdered(r)
  \/ \E r \in Req : ChildError(r)
  \/ \E r \in Req : TimerFired(r)
  \/ \E r \in Req : CacheSetAnswered(r)

SpecDedup == Init /\ [][NextDedup]_vars

\* calls of invalidateRepository next to scans that end before their
\* deadline
NextInvalidate ==
  \/ \E r \in Req : StartScanOrdered(r)
  \/ \E r \in Req : CacheAnswered(r)
  \/ \E r \in Req : ProbeReturned(r)
  \/ \E r \in Req : ProcessEnds(r)
  \/ \E r \in Req : ChildExitOrdered(r)
  \/ \E r \in Req : ChildError(r)
  \/ \E r \in Req : CacheSetAnswered(r)
  \/ \E u \in Urls : InvalidateCalled(u)
  \/ \E u \in Urls : InvalidateKeysAnswered(u)
  \/ InvalidateDelAnswered

SpecInvalidate == Init /\ [][NextInvalidate]_vars

\* the scan orchestrator with a cache store that can fail
NextCacheFaults ==
  \/ \E r \in Req : StartScan(r)
  \/ \E r \in Req : CacheCheckedTraced(r)
  \/ \E r \in Req : ProbeReturned(r)
  \/ \E r \in Req : ProcessEnds(r)
  \/ \E r \in Req : ChildExit(r)
  \/ \E r \in Req : ChildError(r)
  \/ \E r \in Req : TimerFired(r)
  \/ \E r \in Req : CacheSetDone(r)
  \/ \E t \in Targets : CacheExpire(t)

SpecCacheFaults == Init /\ [][NextCacheFaults]_vars

\* the cache service over the shared store
NextCache ==
  \/ StoreFresh
  \/ ReadCache
  \/ \E u \in RepoUrls, storeOk \in BOOLEAN : InvalidateKeys(u, storeOk)
  \/ \E storeOk \in BOOLEAN : InvalidateDel(storeOk)
  \/ \E k \in CacheKeys : KeyExpires(k)

SpecCache == Init /\ [][NextCache]_vars

NextLimiter ==
  \/ \E c \in Calls : RLStart(c)
  \/ \E c \in Calls : RLMulti(c)
  \/ \E c \in Calls : RLZadd(c)
  \/ Tick

\* the rate limiter under concurrent admit calls
SpecLimiter == Init /\ [][NextLimiter]_vars

NextLimiterSeq ==
  \/ \E c \in Calls : RLStartSeq(c)
  \/ \E c \in Calls : RLMultiOk(c)
  \/ \E c \in Calls : RLZaddOk(c)
  \/ TickSeq

\* the rate limiter under sequential admit calls and a healthy store
SpecLimiterSeq == Init /\ [][NextLimiterSeq]_vars


\* ================================================================= claims
Running == {r \in Req : pc[r] = "running"}
Rejected == {r \in Req : outcome[r] = "ConcurrencyReached"}
\* the requests that have come to the gate check
AtGate == {r \in Req : pc[r] = "running" \/
             (pc[r] = "done" /\ outcome[r] \notin {"cached", "ScannerUnavailable"})}
FailureOutcomes == {"ScanTimedOut", "NotInstalled", "AccessDenied",
                    "RepoNotFound", "FailedToScan"}

\* C1: in every reachable state the number of permits held, currentScans,
\* lies between 0 and maxConcurrentScans.
C1_PermitsWithinCapacity ==
  0 <= currentScans /\ currentScans <= maxConcurrentScans

\* the gate is full while an earlier request has already failed and released
C1_Witness ==
  /\ currentScans = maxConcurrentScans
  /\ \E r \in Req : pc[r] = "done" /\ outcome[r] \in FailureOutcomes

\* C2: a request that holds a permit gives it back exactly once, when it
\* completes, on every exit path; a request that ends without having acquired
\* one (cache hit, unavailable scanner, rejected by the gate) leaves
\* currentScans alone; currentScans always equals the number of scans in
\* flight, so it is 0 when there is none.
C2_ReleasedExactlyOnce ==
  [][ /\ \A r \in Req :
           /\ (pc[r] = "running" /\ pc'[r] = "done")
                 => currentScans' = currentScans - 1
           /\ (pc[r] \in {"cacheCheck", "probe"} /\ pc'[r] = "done")
                 => currentScans' = currentScans
      /\ currentScans' = Cardinality({q \in Req : pc'[q] = "running"})
    ]_vars

\* a timed-out request whose process was reaped afterwards, next to a request
\* that never held a permit, and no permit is held any more
C2_Witness ==
  /\ currentScans = 0
  /\ \E r \in Req : outcome[r] = "ScanTimedOut" /\ proc[r] = "reaped"
  /\ \E q \in Req : pc[q] = "done" /\ outcome[q] \in {"cached", "ConcurrencyReached"}

\* C3: a scan attempt that meets currentScans = maxConcurrentScans fails in
\* the same step with the concurrency error: it does not wait, starts no
\* process and arms no timer, and currentScans keeps its value.
C3_RejectedAtOnce ==
  [][ \A r \in Req :
        ( /\ pc[r] = "probe" /\ pc'[r] # "probe"
          /\ outcome'[r] # "ScannerUnavailable"
          /\ currentScans = maxConcurrentScans )
        => /\ pc'[r] = "done"
           /\ outcome'[r] = "ConcurrencyReached"
           /\ currentScans' = currentScans
           /\ proc'[r] = "none" /\ timer'[r] = "none"
    ]_vars

C3_Witness ==
  \E r \in Req : /\ outcome[r] = "ConcurrencyReached"
                 /\ proc[r] = "none"
                 /\ currentScans = maxConcurrentScans

\* C4: when maxConcurrentScans + 1 requests have come to the gate and none of
\* those that got a permit has completed, exactly one of them was rejected
\* with the concurrency error and maxConcurrentScans are running a scan.
C4_ExactlyOneRejected ==
  ( /\ Cardinality(AtGate) = maxConcurrentScans + 1
    /\ (AtGate \ Rejected) \subseteq Running )
  => /\ Cardinality(Rejected) = 1
     /\ Cardinality(Running) = maxConcurrentScans

C4_Witness ==
  /\ Cardinality(AtGate) = maxConcurrentScans + 1
  /\ Cardinality(Running) = maxConcurrentScans
  /\ \A r \in Running : proc[r] = "running" /\ timer[r] = "armed"
  /\ Cardinality(Rejected) = 1

\* the number of admitted timestamps in the window that ends at T
WindowCount(f, T) ==
  SumUpTo([t \in Times |-> IF t > T - windowMs /\ t <= T THEN f[t] ELSE 0],
          MaxTime)

\* C5: under every interleaving of admit calls of one client, no trailing
\* window of length windowMs holds more than maxRequests admitted timestamps.
C5_WindowNeverExceeded ==
  \A T \in Times : WindowCount(admitted, T) <= maxRequests

\* C6: sequential admit calls with a healthy store: a call is denied exactly
\* when the window that ends at its `now` already holds maxRequests admitted
\* calls, and is otherwise recorded and passed on; so the first maxRequests
\* calls of a window pass, the next is denied, and a call made after the
\* window has passed is let through again.
C6_SequentialWindow ==
  [][ \A c \in Calls :
        /\ (rlpc[c] = "multi" /\ rlpc'[c] # "multi")
             => /\ rlpc'[c] = "denied"
                     <=> WindowCount(admitted, rlnow[c]) >= maxRequests
                /\ rlpc'[c] = "zadd"
                     <=> WindowCount(admitted, rlnow[c]) < maxRequests
        /\ (rlpc[c] = "zadd" /\ rlpc'[c] # "zadd")
             => /\ rlpc'[c] = "next"
                /\ admitted'[rlnow[c]] = admitted[rlnow[c]] + 1
    ]_vars

\* maxRequests calls were admitted one window ago, one more was denied, and a
\* call made after the window has passed is admitted
C6_Witness ==
  /\ clock >= windowMs
  /\ SumUpTo(admitted, clock - windowMs) = maxRequests
  /\ admitted[clock] = 1
  /\ \E c, d \in Calls : rlpc[c] = "denied" /\ rlpc[d] = "next"

\* C7: a denied admit call records nothing: the recorded timestamps that lie
\* inside its window are the same after the call as before it.
C7_DeniedRecordsNothing ==
  [][ \A c \in Calls :
        (rlpc[c] = "multi" /\ rlpc'[c] = "denied")
        => /\ \A t \in Times : t > rlnow[c] - windowMs => zset'[t] = zset[t]
           /\ admitted' = admitted
    ]_vars

\* a call was denied while the window is full
C7_Witness ==
  /\ \E c \in Calls : rlpc[c] = "denied"
  /\ WindowCount(zset, clock) >= maxRequests

\* C8: an admit call that met a failing store call (the transaction or the
\* zadd) is passed on to the next handler; it is never answered with 429.
C8_FailsOpen ==
  \A c \in Calls : rlfailed[c] => rlpc[c] = "next"

\* a store call failed while the window was full, and the call was passed on
C8_Witness ==
  /\ \E c \in Calls : rlfailed[c] /\ rlpc[c] = "next"
  /\ WindowCount(zset, clock) >= maxRequests

\* C9: when the deadline timer fires, SIGKILL is sent to the child process and
\* the call ends with the timeout error, never with a result.
C9_TimeoutKills ==
  \A r \in Req :
    timer[r] = "fired"
    => /\ signalSent[r] = "SIGKILL"
       /\ pc[r] = "done"
       /\ outcome[r] = "ScanTimedOut"

\* the deadline was reached while the process was still running
C9_Witness ==
  \E r \in Req : timer[r] = "fired" /\ proc[r] = "running"

\* C10: once a run call has settled, the child process it spawned has
\* terminated.
C10_TerminatedWhenSettled ==
  \A r \in Req : pc[r] = "done" => proc[r] # "running"


\* C11: once the process has exited by itself, or could not be spawned, the
\* deadline timer does not fire any more and no kill signal is sent to it.
C11_TimerCancelledOnExit ==
  \A r \in Req :
    (exitInfo[r] \in {"zero", "nonzero"} \/ proc[r] \in {"spawnFailed", "failed"})
    => timer[r] # "fired" /\ signalSent[r] # KillSignal

\* C12: a process that exited with a non-zero code, without the deadline
\* having fired, makes the scan fail with an error that carries the captured
\* stderr (or the placeholder), and no result is returned.
C12_NonZeroExitCarriesStderr ==
  \A r \in Req :
    (exitInfo[r] = "nonzero" /\ proc[r] = "reaped" /\ timer[r] # "fired")
    => /\ pc[r] = "done"
       /\ ~Succeeded(outcome[r])
       /\ CarriesStderr(outcome[r])

\* C13: a completed scan is reported as timed out if and only if its deadline
\* timer fired.
C13_TimeoutIffDeadline ==
  \A r \in Req :
    pc[r] = "done" => (outcome[r] = "ScanTimedOut" <=> timer[r] = "fired")

\* C14: a run whose output grew beyond maxBuffer ends in an error: it is not
\* resolved with the truncated output, and nothing of it is cached.
C14_OverflowIsError ==
  \A r \in Req :
    signalSent[r] = MaxBufferSignal
    => outcome[r] # "fresh" /\ cacheWrite[r] = "none"

\* C15: at every instant at most maxConcurrentScans scanner processes are
\* alive, those of timed-out requests included.
C15_AliveProcessesCapped ==
  Cardinality({r \in Req : proc[r] = "running"}) <= maxConcurrentScans

\* C16: a request that finds its target in the cache ends at once with the
\* cached result: it goes from the cache check to done without a probe, a
\* permit, a process, a timer, a cache write or a persistence write.
C16_CacheHitGoesToDone ==
  [][ \A r \in Req :
        /\ (outcome'[r] = "cached" /\ outcome[r] # "cached")
             => /\ pc[r] = "cacheCheck" /\ pc'[r] = "done"
                /\ UNCHANGED <<currentScans, cache, proc, timer, signalSent,
                               cacheWrite, dbWrite>>
        /\ outcome'[r] = "cached"
             => /\ proc'[r] = "none" /\ timer'[r] = "none"
                /\ cacheWrite'[r] = "none" /\ dbWrite'[r] = "none"
    ]_vars

\* a request served from the entry that an earlier fresh scan has stored
C16_Witness ==
  \E r, q \in Req :
    /\ outcome[r] = "cached"
    /\ outcome[q] = "fresh" /\ cacheWrite[q] = "stored"
    /\ target[q] = target[r]

\* C17: a request that missed the cache and finds the scanner unavailable
\* fails in that step with the scanner-unavailable error, which is not the
\* timeout error: no permit, no process, no timer, no cache or persistence
\* write.
C17_UnavailableFailsAtOnce ==
  [][ \A r \in Req :
        /\ (outcome'[r] = "ScannerUnavailable" /\ outcome[r] # "ScannerUnavailable")
             => /\ pc[r] = "probe" /\ pc'[r] = "done"
                /\ UNCHANGED <<currentScans, cache, proc, timer, signalSent,
                               cacheWrite, dbWrite>>
        /\ outcome'[r] = "ScannerUnavailable"
             => /\ proc'[r] = "none" /\ timer'[r] = "none"
                /\ cacheWrite'[r] = "none" /\ dbWrite'[r] = "none"
                /\ outcome'[r] # "ScanTimedOut"
    ]_vars

\* the scanner was unavailable for one request while another scan is running
C17_Witness ==
  \E r, q \in Req :
    /\ outcome[r] = "ScannerUnavailable" /\ pc[r] = "done"
    /\ pc[q] = "running" /\ proc[q] = "running"

\* C18: a request whose fresh scan succeeded has started both the cache write
\* and the persistence write, and keeps its result whatever becomes of them.
C18_BestEffortWrites ==
  [][ \A r \in Req :
        /\ outcome'[r] = "fresh"
             => cacheWrite'[r] # "none" /\ dbWrite'[r] # "none"
        /\ outcome[r] = "fresh"
             => outcome'[r] = "fresh" /\ pc'[r] = "done"
    ]_vars

\* both writes of a successful request have failed
C18_Witness ==
  \E r \in Req :
    /\ outcome[r] = "fresh" /\ pc[r] = "done"
    /\ cacheWrite[r] = "failed" /\ dbWrite[r] = "failed"

\* C19: only a request whose fresh scan succeeded writes the cache or the
\* persistence store, and every cache entry was stored by such a request.
C19_OnlySuccessWrites ==
  /\ \A r \in Req :
       (cacheWrite[r] # "none" \/ dbWrite[r] # "none") => outcome[r] = "fresh"
  /\ \A t \in cache :
       \E r \in Req : /\ target[r] = t
                      /\ outcome[r] = "fresh"
                      /\ cacheWrite[r] = "stored"

\* one request failed or was rejected and wrote nothing, another one
\* succeeded and both its writes went through
C19_Witness ==
  \E r, q \in Req :
    /\ outcome[r] \in FailureOutcomes \cup {"ConcurrencyReached", "ScannerUnavailable"}
    /\ cacheWrite[r] = "none" /\ dbWrite[r] = "none"
    /\ outcome[q] = "fresh"
    /\ cacheWrite[q] = "stored" /\ dbWrite[q] = "stored"
    /\ target[q] \in cache

\* C20: gate saturation, scan timeout, process failure and scanner
\* unavailability reach the caller with pairwise distinct error codes, and
\* gate saturation is not answered as an internal server fault (HTTP 500).
SurfacedKinds == {"ConcurrencyReached", "ScanTimedOut", "FailedToScan",
                  "ScannerUnavailable"}
C20_DistinctErrorKinds ==
  /\ \A r, q \in Req :
       ( /\ outcome[r] \in SurfacedKinds /\ outcome[q] \in SurfacedKinds
         /\ outcome[r] # outcome[q] )
       => ErrorCode(outcome[r]) # ErrorCode(outcome[q])
  /\ \A r \in Req :
       outcome[r] = "ConcurrencyReached" => StatusCode(outcome[r]) # 500


\* C21: a request denied by the general limiter or by the scan limiter never
\* reaches the orchestrator: the denying step ends the request and touches
\* nothing of the orchestrator, and a denied request stays ended with no
\* cache lookup, no permit, no process and no write.
C21_DeniedNeverReachesOrchestrator ==
  [][ \A r \in Req :
        /\ (outcome'[r] = "RateLimited" /\ outcome[r] # "RateLimited")
             => /\ pc[r] \in {"general.multi", "scan.multi"}
                /\ UNCHANGED <<currentScans, cache, target, proc, timer,
                               signalSent, cacheWrite, dbWrite>>
        /\ outcome'[r] = "RateLimited"
             => /\ pc'[r] = "done"
                /\ proc'[r] = "none" /\ timer'[r] = "none"
                /\ cacheWrite'[r] = "none" /\ dbWrite'[r] = "none"
    ]_vars

\* one request was denied while another one, admitted, is scanning
C21_Witness ==
  \E r, q \in Req :
    /\ outcome[r] = "RateLimited" /\ pc[r] = "done"
    /\ pc[q] = "running" /\ proc[q] = "running" /\ currentScans = 1


\* C22: with a healthy store, a getScanResult that finds the entry written
\* by the last setScanResult of its target returns a value equal to the
\* result that was set, metadata and scannedAt included.
C22_CacheRoundTrip ==
  (call.op = "getScanResult" /\ call.ok /\ lastSet[call.target] # Null)
  => returned = lastSet[call.target]

\* C23: targets that differ in URL or provider have different keys, and a
\* getScanResult never returns a result that was stored for another target.
C23_KeyPerTarget ==
  /\ \A t1, t2 \in CacheTargets : KeyOf(t1) = KeyOf(t2) => t1 = t2
  /\ (call.op = "getScanResult" /\ returned # Null)
     => /\ returned.repoUrl = call.target[1]
        /\ returned.provider = call.target[2]

\* a read served from the entry of its target while the same repository has
\* another entry under the other provider
C23_Witness ==
  /\ call.op = "getScanResult" /\ returned # Null
  /\ \E p \in Providers :
       /\ p # call.target[2]
       /\ store[generateCacheKey(call.target[1], p)] # Absent
       /\ store[generateCacheKey(call.target[1], p)] # store[KeyOf(call.target)]


\* C25: with a store that answers, invalidateRepository(repoUrl) finds every
\* entry of that repository under all providers, removes exactly those and
\* returns how many it removed; when nothing matched it returns 0 and
\* changes nothing.
EntriesOf(repoUrl) ==
  {k \in CacheKeys : store[k] # Absent /\ k[3] = Md5(repoUrl)}
C25_InvalidateRemovesAllProviders ==
  [][ /\ (found = {} /\ found' # {})
         => /\ found' = EntriesOf(call'.target[1])
            /\ store' = store
      /\ (found # {} /\ found' = {} /\ call'.ok)
         => /\ \A k \in found : store'[k] = Absent
            /\ \A k \in CacheKeys \ found : store'[k] = store[k]
            /\ returned' = Num(Cardinality({k \in found : store[k] # Absent}))
      /\ ( /\ found = {} /\ found' = {}
           /\ call'.op = "invalidateRepository" /\ call'.ok
           /\ store' = store
           /\ (call' # call \/ returned' # returned) )
         => /\ returned' = Num(0)
            /\ EntriesOf(call'.target[1]) = {}
    ]_vars

\* after scans under two providers the call has removed both entries and
\* returned 2, and an entry of the other repository is still there
C25_Witness ==
  /\ call.op = "invalidateRepository" /\ call.ok
  /\ returned = Num(2) /\ found = {}
  /\ EntriesOf(call.target[1]) = {}
  /\ \E k \in CacheKeys : store[k] # Absent


\* C28: every ScanResult the orchestrator hands out, built from a fresh scan
\* or read from the cache, has totalVulnerabilities equal to the number of
\* its findings and verifiedVulnerabilities equal to the number of its
\* findings with Verified true.
CountsAgree(res) ==
  /\ res.metadata.totalVulnerabilities = Len(res.vulnerabilities)
  /\ res.metadata.verifiedVulnerabilities =
       Cardinality({i \in 1..Len(res.vulnerabilities) :
                      res.vulnerabilities[i].Verified = Bool(TRUE)})
C28_CountsMatchFindings ==
  /\ \A res \in ScanResults : CountsAgree(res)
  /\ \A t \in CacheTargets : lastSet[t] # Null => CountsAgree(lastSet[t])
  /\ (call.op = "getScanResult" /\ returned # Null) => CountsAgree(returned)

\* a cached result with two findings, one of them verified, was served
C28_Witness ==
  /\ call.op = "getScanResult" /\ returned # Null
  /\ Len(returned.vulnerabilities) = 2
  /\ returned.metadata.verifiedVulnerabilities = 1
  /\ returned.metadata.totalVulnerabilities = 2


\* C24: a cache read that fails is taken as a miss, the request goes on to
\* the probe and the fresh scan and is not failed by it; a cache write that
\* fails leaves the request done with its fresh result.
C24_CacheFailuresNeverFail ==
  [][ \A r \in Req :
        /\ (cacheRead'[r] = "error" /\ cacheRead[r] # "error")
             => /\ pc[r] = "cacheCheck" /\ pc'[r] = "probe"
                /\ outcome'[r] = "none"
        /\ outcome'[r] # "ScanFailed"
        /\ (cacheWrite'[r] = "failed" /\ cacheWrite[r] # "failed")
             => /\ outcome[r] = "fresh" /\ outcome'[r] = "fresh"
                /\ pc'[r] = "done"
    ]_vars

\* a request whose cache read failed although its target was cached has
\* scanned afresh, and its cache write failed too: it is done with its result
C24_Witness ==
  \E r \in Req :
    /\ cacheRead[r] = "error" /\ cacheWrite[r] = "failed"
    /\ outcome[r] = "fresh" /\ pc[r] = "done"
    /\ target[r] \in cache


\* C26: the parser returns one finding for each line that decodes, in the
\* order of the lines, whatever lines that fail to decode stand between
\* them (a line holding the literal null has no fields to read and is
\* counted with the lines that fail; every other line that JSON.parse
\* accepts decodes).
Decodes(line) == line.kind \in {"object", "scalar"}
C26_OneFindingPerDecodableLine ==
  parsed =>
    LET good == SelectSeq(output, Decodes)
    IN /\ Len(results) = Len(good)
       /\ \A i \in 1..Len(good) : results[i].Raw = good[i].Raw

\* two findings came out of three lines, the middle one malformed
C26_Witness ==
  /\ parsed /\ Len(output) = 3
  /\ output[1].kind = "object" /\ output[2].kind = "malformed"
  /\ output[3].kind = "object" /\ output[1].Raw # output[3].Raw
  /\ Len(results) = 2

\* C27: a decoded line without Verified gives a finding with Verified false,
\* one without ExtraData gives a finding with an empty map, and no absent
\* field makes the parser drop the line.
C27_MissingFieldsDefault ==
  parsed =>
    LET good == SelectSeq(output, Decodes)
    IN /\ Len(results) = Len(good)
       /\ \A i \in 1..Len(good) :
            /\ good[i].Verified = Undefined => results[i].Verified = Bool(FALSE)
            /\ good[i].ExtraData = Undefined => results[i].ExtraData = EmptyMap
            /\ good[i].Verified = Bool(TRUE) => results[i].Verified = Bool(TRUE)

\* a line with neither Verified nor ExtraData was parsed into a finding
C27_Witness ==
  /\ parsed
  /\ \E i \in 1..Len(output) :
       /\ output[i].kind = "object"
       /\ output[i].Verified = Undefined /\ output[i].ExtraData = Undefined
  /\ Len(results) = Len(output)
  /\ Len(results) > 0


\* C29: the process that is started is the scanner itself, and the
\* repository URL is one element of its argument vector (alone, or after
\* --repo=); the URL is not part of a command string given to a shell.
C29_UrlIsDiscreteArgument ==
  childFile # "none"
  => /\ childFile = "trufflehog"
     /\ \E i \in 1..Len(childArgs) :
          childArgs[i] = url \/ childArgs[i] = <<"--repo=">> \o url


\* C30: every request that holds a permit eventually reaches its terminal
\* state with the permit given back (currentScans counts the running
\* requests only), whether its process exits, fails to spawn or never ends.
C30_PermitEventuallyReleased ==
  \A r \in Req :
    (pc[r] = "running")
      ~> (pc[r] = "done" /\ currentScans = Cardinality(Running))

\* a request whose process never ended is done, timed out, and no permit is
\* held any more
C30_Witness ==
  \E r \in Req :
    /\ pc[r] = "done" /\ outcome[r] = "ScanTimedOut"
    /\ proc[r] = "running" /\ exitInfo[r] = "none"
    /\ currentScans = 0 /\ Running = {}


\* C31: within a request that missed the cache, the permit is taken in the
\* step that spawns the scan process and given back in the step that starts
\* the cache write and the persistence write: while a write of a request is
\* pending, or its cache read is awaited, the request holds no permit.
C31_PermitNotHeldAcrossWrites ==
  [][ \A r \in Req :
        /\ (proc[r] = "none" /\ proc'[r] # "none")
             => /\ currentScans' = currentScans + 1
                /\ pc'[r] = "running"
        /\ ( \/ (cacheWrite[r] = "none" /\ cacheWrite'[r] = "pending")
             \/ (dbWrite[r] = "none" /\ dbWrite'[r] = "pending") )
             => /\ pc[r] = "running" /\ pc'[r] = "done"
                /\ currentScans' = currentScans - 1
        /\ (cacheWrite'[r] = "pending" \/ dbWrite'[r] = "pending"
              \/ pc'[r] = "cacheCheck")
             => /\ pc'[r] # "running"
                /\ currentScans' = Cardinality({q \in Req : pc'[q] = "running"})
    ]_vars

\* both writes of a finished request are pending while another request
\* holds the permit and runs its scan
C31_Witness ==
  \E r, q \in Req :
    /\ pc[r] = "done" /\ cacheWrite[r] = "pending" /\ dbWrite[r] = "pending"
    /\ pc[q] = "running" /\ proc[q] = "running"
    /\ currentScans = 1


\* C32: a run ends successfully only when its process exited with code 0: a
\* process ended by a signal, SIGKILL or another one, makes the request fail,
\* and nothing of its output is returned or cached.
C32_SignalExitIsError ==
  \A r \in Req :
    (proc[r] = "reaped" /\ exitInfo[r] \in {"SIGTERM", "SIGKILL"})
    => /\ ~Succeeded(outcome[r])
       /\ cacheWrite[r] = "none"


\* C38: denied calls never postpone re-admission: when the window has been
\* full since some instant (maxRequests calls admitted from that instant on)
\* and an admit call comes at least windowMs after that instant (the claim's
\* case, more than windowMs, included), the store answering, the call is
\* allowed, however many calls were denied in between.
AdmittedSince(old) ==
  SumUpTo([t \in Times |-> IF t >= old THEN admitted[t] ELSE 0], MaxTime)
FullSince(old) == admitted[old] > 0 /\ AdmittedSince(old) = maxRequests
C38_DeniedNeverPostpones ==
  [][ \A c \in Calls :
        ( /\ rlpc[c] = "multi" /\ rlpc'[c] # "multi"
          /\ ~rlfailed'[c]
          /\ \E old \in Times : FullSince(old) /\ rlnow[c] - windowMs >= old )
        => rlpc'[c] = "zadd"
    ]_vars

\* the window was full, a call was denied, and a call that came more than
\* windowMs after the oldest admitted timestamp has passed the count check
C38_Witness ==
  \E c, d \in Calls :
    /\ rlpc[d] = "denied"
    /\ rlpc[c] = "zadd"
    /\ \E old \in Times : FullSince(old) /\ rlnow[c] - windowMs > old


\* C40: a rate-limit key that exists in the store (a sorted set with at
\* least one member) carries an expiry, the key created by the first
\* request of a client included.
C40_KeyAlwaysExpires ==
  ZCard(zset) > 0 => expireAt # -1


\* C36: every failure message is reported as the kind it names: one that
\* says the repository was not found as RepoNotFound, one that says
\* permission or access was denied as AccessDenied, and NotInstalled is
\* reported for a missing scanner binary only, never for a message that
\* names the repository.
NamesRepository(m) == "repository not found" \in m \/ "404" \in m
NamesPermission(m) == "permission denied" \in m \/ "access denied" \in m
NamesTimeout(m) == "timeout" \in m
C36_MessageMapsToItsKind ==
  reported # "none" =>
    /\ ( /\ NamesRepository(message)
         /\ ~NamesPermission(message) /\ ~NamesTimeout(message)
         /\ "command not found" \notin message )
       => reported = "RepoNotFound"
    /\ (NamesPermission(message) /\ message \subseteq {"permission denied", "access denied"})
       => reported = "AccessDenied"
    /\ reported = "NotInstalled" => ~NamesRepository(message)


\* C37: the parser returns one finding per non-blank line that decodes to a
\* JSON object; a line that is valid JSON but not an object (a number, a
\* string, an array, null) gives no finding.
IsObject(line) == line.kind = "object"
C37_OnlyObjectsGiveFindings ==
  parsed => Len(results) = Len(SelectSeq(output, IsObject))


\* C33: when a run resolves successfully, the stdout it hands to the parser
\* holds every chunk the process wrote, for every order of the 'data' events
\* and the 'exit' event.
C33_NoOutputLost ==
  promise = "resolved" => resolvedWith = chunks


\* C39: on POST /scan validation runs after both limiters: a request is
\* rejected by validation only in a step of the scan limiter, and by then
\* the general limiter and the scan limiter have each recorded a timestamp
\* for it (a limiter whose store call failed has let it pass unrecorded).
C39_InvalidRequestsConsumeQuota ==
  [][ \A r \in Req :
        /\ (outcome'[r] = "ValidationFailed" /\ outcome[r] # "ValidationFailed")
             => pc[r] \in {"scan.multi", "scan.zadd"}
        /\ outcome'[r] = "ValidationFailed"
             => \A l \in Limiters : quota'[r][l] \in {"recorded", "error"}
    ]_vars

\* a request rejected by validation after both limiters have recorded it
C39_Witness ==
  \E r \in Req :
    /\ outcome[r] = "ValidationFailed" /\ pc[r] = "done"
    /\ \A l \in Limiters : quota[r][l] = "recorded"


\* C34: once invalidateRepository has returned, the cache holds no entry
\* that was written by a scan which had started before the invalidation, for
\* every interleaving with scans in flight and their cache writes.
C34_NoStaleEntryAfterInvalidation ==
  ~Invalidating => cache \cap stale = {}


\* C35: with a healthy store and within the TTL, a request that starts after
\* an earlier request for the same target has returned a fresh result is
\* served from the cache: it does not miss and runs no second scan.
C35_SecondRequestServedFromCache ==
  [][ \A r \in Req :
        (pc[r] = "cacheCheck" /\ pc'[r] # "cacheCheck" /\ freshBefore[r] # {})
        => /\ pc'[r] = "done" /\ outcome'[r] = "cached"
           /\ proc'[r] = "none" /\ currentScans' = currentScans
    ]_vars

\* a request that started after a fresh result for its target was returned
\* has been served from the entry that the earlier request wrote
C35_Witness ==
  \E r \in Req :
    /\ pc[r] = "done" /\ outcome[r] = "cached"
    /\ \E q \in freshBefore[r] : cacheWrite[q] = "stored"

====
